---------------------------- MODULE Spec2Model ----------------------------
(***************************************************************************)
(* A model of cnn_capstone_img_preprocess.py: the label extraction of      *)
(* image_categories, the geometry of resize_image_to_square /              *)
(* _center_image / crop_image, the loop of process_images, and the paired  *)
(* random split of train_validation_split.                                 *)
(*                                                                         *)
(* Strings are sequences of one-character strings.  An image is a record   *)
(* of its numpy shape (h rows, w columns), the content it was decoded from *)
(* (src) and its channel order; pixel values are kept only where the code  *)
(* computes with them (the /255 rescale of the split).                     *)
(***************************************************************************)
EXTENDS Integers, Sequences, FiniteSets, TLC

VARIABLES
    \* image_categories
    listed,          \* number of directory entries the listing has yielded
    flower_dict,     \* the mapping img_path -> img_cat built so far
    \* resize_image_to_square / _center_image / crop_image on one image
    g_pc,            \* position inside the normalisation of one image
    img,             \* the image being normalised
    new_size,        \* <<height, width>> of the resize target
    crop_size,       \* <<height, width>> of the crop target
    tile_size,       \* the dsize tuple <<width, height>> given to cv2.resize
    tile,            \* the image cv2.resize returned
    row_buffer,      \* _center_image's row margin
    col_buffer,      \* _center_image's column margin
    centered,        \* the canvas _center_image returned
    cropped,         \* the image crop_image returned
    \* process_images
    b_pc,            \* position inside process_images
    file_paths_list, \* the argument
    resize_new_size, \* the argument, <<height, width>>
    crop_size_arg,   \* the argument crop_size, <<height, width>>
    idx,             \* number of paths the for loop has consumed
    cur,             \* the loop's img variable
    x,               \* the list x (and the array built from it)
    \* train_validation_split, in each of the runs (processes)
    archive,         \* the saved arrays: <<images, labels>>
    rng,             \* each run's global np.random state
    s_pc,            \* each run's position
    results          \* each run's sequence of values returned by the calls

vars == <<listed, flower_dict,
          g_pc, img, new_size, crop_size, tile_size, tile, row_buffer,
          col_buffer, centered, cropped,
          b_pc, file_paths_list, resize_new_size, crop_size_arg, idx, cur, x,
          archive, rng, s_pc, results>>

labelVars == <<listed, flower_dict>>
geomVars  == <<g_pc, img, new_size, crop_size, tile_size, tile, row_buffer,
               col_buffer, centered, cropped>>
batchVars == <<b_pc, file_paths_list, resize_new_size, crop_size_arg, idx,
               cur, x>>
splitVars == <<archive, rng, s_pc, results>>

\* Python's None and a raised exception, where an image is expected: records
\* of an image's fields, so that they compare with images.
None  == [h |-> 0, w |-> 0, ch |-> 0, src |-> <<"None">>, order |-> "None"]
Error == [h |-> 0, w |-> 0, ch |-> 0, src |-> <<"error">>, order |-> "error"]

\* The parts of the program a specification does not exercise stay as they
\* are before their function is called.
LabelIdle == listed = 0 /\ flower_dict = <<>>
GeomIdle  ==
    /\ g_pc = "idle" /\ img = None /\ new_size = <<>> /\ crop_size = <<>>
    /\ tile_size = <<>> /\ tile = None /\ row_buffer = 0
    /\ col_buffer = 0 /\ centered = None /\ cropped = None
BatchIdle ==
    /\ b_pc = "idle" /\ file_paths_list = <<>> /\ resize_new_size = <<>>
    /\ crop_size_arg = <<>> /\ idx = 0 /\ cur = None /\ x = <<>>
SplitIdle ==
    /\ archive = <<>> /\ rng = <<>> /\ s_pc = <<>> /\ results = <<>>

Range(s) == {s[i] : i \in DOMAIN s}

RECURSIVE SeqsUpTo(_, _)
\* All sequences over S of length at most n.
SeqsUpTo(S, n) ==
    IF n = 0 THEN {<<>>}
    ELSE LET shorter == SeqsUpTo(S, n - 1)
         IN  shorter \cup {Append(s, e) : s \in shorter, e \in S}

(***************************************************************************)
(*                            image_categories                             *)
(***************************************************************************)

MaxStem  == 3       \* characters of a file name before its ending
MaxFiles == 1       \* directory entries listed

Digits    == {"1"}
StemChars == {"a", "g", "1"}
Endings   == {<<>>, <<".", "j", "p", "g">>, <<"_", ".", "j", "p", "g">>}

\* The names os.listdir may yield: a stem, an ending, and for hidden entries
\* a leading dot.
FileNames ==
    {h \o s \o e : h \in {<<>>, <<".">>}, s \in SeqsUpTo(StemChars, MaxStem),
                   e \in Endings} \ {<<>>}

img_root == <<"../imgs_jpgs/">>

startswith(name, c) == Len(name) >= 1 /\ name[1] = c

RECURSIVE re_sub_digits(_)
\* re.sub("\d+", "", name): every maximal run of digits is replaced by the
\* empty string, scanning from the left.
re_sub_digits(name) ==
    IF name = <<>> THEN <<>>
    ELSE IF Head(name) \in Digits
         THEN LET run == CHOOSE k \in 1..Len(name) :
                           /\ \A i \in 1..k : name[i] \in Digits
                           /\ (k = Len(name) \/ name[k + 1] \notin Digits)
              IN  re_sub_digits(SubSeq(name, run + 1, Len(name)))
         ELSE <<Head(name)>> \o re_sub_digits(Tail(name))

\* A faulty variant: str.rstrip taken for the removal of a literal suffix.
remove_suffix(s, chars) ==
    IF /\ Len(s) >= Len(chars)
       /\ SubSeq(s, Len(s) - Len(chars) + 1, Len(s)) = chars
    THEN SubSeq(s, 1, Len(s) - Len(chars))
    ELSE s

RECURSIVE rstrip_from(_, _)
rstrip_from(s, chars) ==
    IF s # <<>> /\ s[Len(s)] \in Range(chars)
    THEN rstrip_from(SubSeq(s, 1, Len(s) - 1), chars)
    ELSE s

\* str.rstrip(chars): drops trailing characters while they are members of
\* chars.
rstrip(s, chars) == rstrip_from(s, chars)

\* Line 46: img_cat = re.sub("\d+", "", name).rstrip('_.jpg')
img_cat(name) == rstrip(re_sub_digits(name), <<"_", ".", "j", "p", "g">>)

\* Line 44: img_path = '{}{}'.format(img_root, name)
img_path(name) == img_root \o name

\* One directory entry: line 36 keeps only regular files, line 42 skips the
\* names that start with a dot, lines 44-48 store the label.
ListEntry ==
    /\ listed < MaxFiles
    /\ \E name \in FileNames, isfile \in BOOLEAN :
         /\ listed' = listed + 1
         /\ IF isfile /\ ~startswith(name, ".")
            THEN flower_dict' =
                   [p \in DOMAIN flower_dict \cup {img_path(name)} |->
                      IF p = img_path(name) THEN img_cat(name)
                      ELSE flower_dict[p]]
            ELSE flower_dict' = flower_dict
    /\ UNCHANGED <<geomVars, batchVars, splitVars>>

InitLabels == LabelIdle /\ GeomIdle /\ BatchIdle /\ SplitIdle
NextLabels == ListEntry
SpecLabels == InitLabels /\ [][NextLabels]_vars

\* The file name a key of flower_dict was built from.
NameOf(path) == Tail(path)

StripSet == {"_", ".", "j", "p", "g"}

\* <name><digits>_.jpg: the name ends in _.jpg and at least one digit
\* stands right before that ending.
MatchesPattern(name) ==
    /\ Len(name) >= 6
    /\ SubSeq(name, Len(name) - 4, Len(name)) = <<"_", ".", "j", "p", "g">>
    /\ name[Len(name) - 5] \in Digits

NoDigits(name) == SelectSeq(name, LAMBDA c : c \notin Digits)

\* The longest prefix of s that is empty or ends outside StripSet.
StrippedPrefix(s) ==
    LET keep == {k \in 0..Len(s) : k = 0 \/ s[k] \notin StripSet}
        k    == CHOOSE m \in keep : \A n \in keep : n <= m
    IN  SubSeq(s, 1, k)

\* C8: for every file name of the form <name><digits>_.jpg the stored label
\* is the name with every digit removed and then every trailing character
\* of {_ . j p g} removed, the remaining characters unchanged.
C8_LabelIsCharClassStrip ==
    \A p \in DOMAIN flower_dict :
        MatchesPattern(NameOf(p)) =>
            flower_dict[p] = StrippedPrefix(NoDigits(NameOf(p)))

\* C8's case: a pattern name whose <name> itself ends in a character of the
\* strip set, so the stripping goes past the literal suffix.
C8_Witness ==
    \E p \in DOMAIN flower_dict :
        /\ MatchesPattern(NameOf(p))
        /\ NameOf(p) = <<"a", "g", "1", "_", ".", "j", "p", "g">>
        /\ flower_dict[p] = <<"a">>

\* C9 (as claimed): every label stored in the mapping is a non-empty string.
C9_LabelNonEmpty ==
    \A p \in DOMAIN flower_dict : flower_dict[p] # <<>>

(***************************************************************************)
(*          resize_image_to_square, _center_image and crop_image           *)
(***************************************************************************)

MaxDim  == 5        \* height and width of an input image
MaxSize == 4        \* height and width of a resize target

\* A decoded image: shape (h, w, ch), the content it shows, channel order.
Image(h, w, src, order) ==
    [h |-> h, w |-> w, ch |-> 3, src |-> src, order |-> order]

IsImage(v) == v # None /\ v # Error

Max(a, b) == IF a >= b THEN a ELSE b
Min(a, b) == IF a <= b THEN a ELSE b

\* A faulty variant: the dsize tuple written in numpy's (height, width) order.
tile_size_swapped(im, size) ==
    IF im.h > im.w
    THEN <<size[2], (im.w * size[2]) \div im.h>>
    ELSE <<(im.h * size[2]) \div im.w, size[2]>>

\* A faulty variant: the scaled side rounded to nearest instead of truncated.
tile_size_rounded(im, size) ==
    IF im.h > im.w
    THEN <<(2 * im.w * size[2] + im.h) \div (2 * im.h), size[2]>>
    ELSE <<size[2], (2 * im.h * size[2] + im.w) \div (2 * im.w)>>

\* Lines 69-72.  Python's new_size[1] is size[2] here; int() of a quotient
\* of non-negative numbers is its floor.  The tuple is cv2's dsize, that is
\* <<width, height>>.
tile_size_of(im, size) ==
    IF im.h > im.w
    THEN <<(im.w * size[2]) \div im.h, size[2]>>
    ELSE <<size[2], (im.h * size[2]) \div im.w>>

\* cv2.resize(img, dsize=(width, height)): an image of dsize[1] rows and
\* dsize[0] columns; a dsize with a zero side is refused with an error.
cv2_resize(im, dsize) ==
    IF dsize[1] <= 0 \/ dsize[2] <= 0 THEN Error
    ELSE [im EXCEPT !.h = dsize[2], !.w = dsize[1]]

\* Python's handling of one slice bound on an axis of length n.
SliceBound(i, n) ==
    IF i < 0 THEN Max(i + n, 0) ELSE Min(i, n)

\* The number of positions a[start:stop] selects on an axis of length n.
SliceLen(start, stop, n) ==
    Max(SliceBound(stop, n) - SliceBound(start, n), 0)

\* numpy's rule for a[...] = b along one axis: equal lengths, or b of
\* length 1 broadcast.
Assignable(target, source) == source = target \/ source = 1

\* Lines 57-58; // floors, also for a negative difference.
row_buffer_of(im, size) == (size[1] - im.h) \div 2
col_buffer_of(im, size) == (size[2] - im.w) \div 2

\* Lines 59-61: a zero canvas of shape new_size + [channels], the image
\* assigned to the slice at the margins; the assignment raises when the
\* shapes do not agree.
center_image(im, size) ==
    LET rb   == row_buffer_of(im, size)
        cb   == col_buffer_of(im, size)
        rows == SliceLen(rb, rb + im.h, size[1])
        cols == SliceLen(cb, cb + im.w, size[2])
    IN  IF Assignable(rows, im.h) /\ Assignable(cols, im.w)
        THEN [im EXCEPT !.h = size[1], !.w = size[2]]
        ELSE Error

\* A faulty variant: the crop window ended at margin + crop_size.
crop_image_exact(im, crop) ==
    LET rb == (im.h - crop[1]) \div 2
        cb == (im.w - crop[2]) \div 2
    IN  [im EXCEPT !.h = SliceLen(rb, rb + crop[1], im.h),
                   !.w = SliceLen(cb, cb + crop[2], im.w)]

\* Lines 82-84: the window runs from the margin to shape - margin.
crop_image(im, crop) ==
    LET rb == (im.h - crop[1]) \div 2
        cb == (im.w - crop[2]) \div 2
    IN  [im EXCEPT !.h = SliceLen(rb, im.h - rb, im.h),
                   !.w = SliceLen(cb, im.w - cb, im.w)]

\* Line 74 as a whole: Error stands for the exception either call raises.
resize_image_to_square(im, size) ==
    LET t == cv2_resize(im, tile_size_of(im, size))
    IN  IF t = Error THEN Error ELSE center_image(t, size)

\* Lines 69-72 on the image under normalisation.
ComputeTileSize ==
    /\ g_pc = "tile_size"
    /\ tile_size' = tile_size_of(img, new_size)
    /\ g_pc' = "resize"
    /\ UNCHANGED <<img, new_size, crop_size, tile, row_buffer, col_buffer,
                   centered, cropped>>
    /\ UNCHANGED <<labelVars, batchVars, splitVars>>

\* The cv2.resize call of line 74.
Resize ==
    /\ g_pc = "resize"
    /\ tile' = cv2_resize(img, tile_size)
    /\ g_pc' = IF tile' = Error THEN "raised_resize" ELSE "center"
    /\ UNCHANGED <<img, new_size, crop_size, tile_size, row_buffer,
                   col_buffer, centered, cropped>>
    /\ UNCHANGED <<labelVars, batchVars, splitVars>>

\* _center_image, lines 57-61.
CenterImage ==
    /\ g_pc = "center"
    /\ row_buffer' = row_buffer_of(tile, new_size)
    /\ col_buffer' = col_buffer_of(tile, new_size)
    /\ centered' = center_image(tile, new_size)
    /\ g_pc' = IF centered' = Error THEN "raised_center" ELSE "crop"
    /\ UNCHANGED <<img, new_size, crop_size, tile_size, tile, cropped>>
    /\ UNCHANGED <<labelVars, batchVars, splitVars>>

\* crop_image, lines 82-84.
CropImage ==
    /\ g_pc = "crop"
    /\ cropped' = crop_image(centered, crop_size)
    /\ g_pc' = "done"
    /\ UNCHANGED <<img, new_size, crop_size, tile_size, tile, row_buffer,
                   col_buffer, centered>>
    /\ UNCHANGED <<labelVars, batchVars, splitVars>>

\* Any image with height, width >= 1, any resize target, any crop target
\* no larger than the resize target.
InitGeometry ==
    /\ LabelIdle /\ BatchIdle /\ SplitIdle
    /\ g_pc = "tile_size"
    /\ img \in {Image(h, w, <<"photo">>, "RGB") : h \in 1..MaxDim, w \in 1..MaxDim}
    /\ new_size \in (1..MaxSize) \X (1..MaxSize)
    /\ crop_size \in {c \in (1..MaxSize) \X (1..MaxSize) :
                        c[1] <= new_size[1] /\ c[2] <= new_size[2]}
    /\ tile_size = <<>> /\ tile = None /\ row_buffer = 0
    /\ col_buffer = 0 /\ centered = None /\ cropped = None

NextGeometry == ComputeTileSize \/ Resize \/ CenterImage \/ CropImage
SpecGeometry == InitGeometry /\ [][NextGeometry]_vars

\* The size crop_image leaves on an axis, from the two targets alone.
CroppedDim(resize_target, crop_target) ==
    IF (resize_target - crop_target) % 2 = 0 THEN crop_target
    ELSE crop_target + 1

\* C1: every image returned by resize_image_to_square followed by crop_image
\* has on each axis the crop target when (resize target - crop target) is
\* even and the crop target + 1 when it is odd, whatever the input image.
C1_CroppedShape ==
    g_pc = "done" =>
        /\ cropped.h = CroppedDim(new_size[1], crop_size[1])
        /\ cropped.w = CroppedDim(new_size[2], crop_size[2])

\* C1's case: a non-square image normalised with an odd row difference and
\* an even, non-zero column difference.
C1_Witness ==
    /\ g_pc = "done"
    /\ img.h # img.w
    /\ (new_size[1] - crop_size[1]) % 2 = 1
    /\ (new_size[2] - crop_size[2]) % 2 = 0
    /\ new_size[2] > crop_size[2]
    /\ cropped.h = crop_size[1] + 1

\* C4 (as claimed): height > width gives a tile as wide as the target, and
\* height < width a tile as high as the target.
C4_TileSideAsClaimed ==
    IsImage(tile) =>
        /\ (img.h > img.w => tile.w = new_size[2])
        /\ (img.h < img.w => tile.h = new_size[1])

\* C4 (amended): height > width gives a tile whose height is new_size[1]
\* (the target's width entry), and height < width a tile whose width is
\* new_size[1]; the other side is the scaled one.
C4_TileSideAmended ==
    IsImage(tile) =>
        /\ (img.h > img.w => tile.h = new_size[2])
        /\ (img.h < img.w => tile.w = new_size[2])

\* C4's case: a portrait image resized, its width scaled below the target.
C4_Witness ==
    /\ IsImage(tile)
    /\ img.h > img.w
    /\ tile.h = new_size[2]
    /\ tile.w < new_size[2]

\* The tile fits the canvas, and once _center_image has run its margins
\* are non-negative and the tile's slice lies inside the canvas.
TileInsideCanvas ==
    /\ tile_size # <<>> =>
         tile_size[2] <= new_size[1] /\ tile_size[1] <= new_size[2]
    /\ g_pc \in {"crop", "done", "raised_center"} =>
         /\ row_buffer >= 0 /\ col_buffer >= 0
         /\ row_buffer + tile.h <= new_size[1]
         /\ col_buffer + tile.w <= new_size[2]
         /\ centered # Error

\* C5 (as claimed): for every resize target, square or not, the tile is no
\* larger than the target and is copied entirely inside the canvas.
C5_TileFitsAnyTarget == TileInsideCanvas

\* What the code does keep: the same for every resize target at least as
\* high as it is wide, every square target among them (both branches of
\* lines 69-72 scale to new_size[1], the width entry).
TileFitsTallTarget ==
    new_size[1] >= new_size[2] => TileInsideCanvas

\* C10: for a square target of side S and an image of longer side L and
\* shorter side s, the tile's side along the image's longer axis is S and
\* the other is floor(s*S/L), which is >= 1 exactly when L <= s*S and is 0,
\* a size cv2.resize refuses, when L > s*S.
C10_TileSizeSquareTarget ==
    (tile_size # <<>> /\ new_size[1] = new_size[2]) =>
        LET S     == new_size[1]
            L     == Max(img.h, img.w)
            s     == Min(img.h, img.w)
            long  == IF img.h > img.w THEN tile_size[2] ELSE tile_size[1]
            short == IF img.h > img.w THEN tile_size[1] ELSE tile_size[2]
        IN  /\ long = S
            /\ short * L <= s * S /\ s * S < (short + 1) * L
            /\ (short >= 1 <=> L <= s * S)
            /\ (L > s * S => short = 0)
            /\ (tile # None => (tile = Error <=> L > s * S))

\* C10's case: an image too elongated for the square target; the computed
\* tile has a zero side and the resize is refused.
C10_Witness ==
    /\ g_pc = "raised_resize"
    /\ new_size[1] = new_size[2]
    /\ Max(img.h, img.w) > Min(img.h, img.w) * new_size[1]
    /\ tile_size[1] = 0
    /\ tile = Error

(***************************************************************************)
(*                             process_images                              *)
(***************************************************************************)

MaxPaths     == 3   \* length of file_paths_list
MaxBatchDim  == 2   \* height and width of the images on disk
MaxBatchSize == 2   \* side of the square resize target passed in

\* A path names either a file that holds an h x w image or a file that is
\* no image at all.
ImagePath(h, w) == <<"image", h, w>>
CorruptPath     == <<"corrupt", 0, 0>>
Paths ==
    {ImagePath(h, w) : h \in 1..MaxBatchDim, w \in 1..MaxBatchDim}
        \cup {CorruptPath}

\* cv2.imread: the decoded image in BGR order, or None (no exception) when
\* the file cannot be decoded.
imread(path) ==
    IF path[1] = "image" THEN Image(path[2], path[3], path, "BGR") ELSE None

\* cv2.cvtColor(img, cv2.COLOR_BGR2RGB) on a decoded image.
cvtColor(im) == [im EXCEPT !.order = "RGB"]

\* The for statement of line 93: the next path, or the end of the loop.
ForNext ==
    /\ b_pc = "for"
    /\ IF idx < Len(file_paths_list)
       THEN idx' = idx + 1 /\ b_pc' = "imread"
       ELSE idx' = idx /\ b_pc' = "array"
    /\ UNCHANGED <<file_paths_list, resize_new_size, crop_size_arg, cur, x>>
    /\ UNCHANGED <<labelVars, geomVars, splitVars>>

\* Line 94.
Imread ==
    /\ b_pc = "imread"
    /\ cur' = imread(file_paths_list[idx])
    /\ b_pc' = "cvtColor"
    /\ UNCHANGED <<file_paths_list, resize_new_size, crop_size_arg, idx, x>>
    /\ UNCHANGED <<labelVars, geomVars, splitVars>>

\* A faulty variant: an undecodable file skipped, the loop going on.
CvtColorSkip ==
    /\ b_pc = "cvtColor"
    /\ IF cur = None
       THEN cur' = cur /\ b_pc' = "for"
       ELSE cur' = cvtColor(cur) /\ b_pc' = "resize"
    /\ UNCHANGED <<file_paths_list, resize_new_size, crop_size_arg, idx, x>>
    /\ UNCHANGED <<labelVars, geomVars, splitVars>>

\* Line 95: cv2.cvtColor raises on None; nothing in process_images catches.
CvtColor ==
    /\ b_pc = "cvtColor"
    /\ IF cur = None
       THEN cur' = cur /\ b_pc' = "raised"
       ELSE cur' = cvtColor(cur) /\ b_pc' = "resize"
    /\ UNCHANGED <<file_paths_list, resize_new_size, crop_size_arg, idx, x>>
    /\ UNCHANGED <<labelVars, geomVars, splitVars>>

\* Line 96: an exception of resize_image_to_square propagates.
ResizeToSquare ==
    /\ b_pc = "resize"
    /\ cur' = resize_image_to_square(cur, resize_new_size)
    /\ b_pc' = IF cur' = Error THEN "raised" ELSE "crop"
    /\ UNCHANGED <<file_paths_list, resize_new_size, crop_size_arg, idx, x>>
    /\ UNCHANGED <<labelVars, geomVars, splitVars>>

\* Line 97.
Crop ==
    /\ b_pc = "crop"
    /\ cur' = crop_image(cur, crop_size_arg)
    /\ b_pc' = "append"
    /\ UNCHANGED <<file_paths_list, resize_new_size, crop_size_arg, idx, x>>
    /\ UNCHANGED <<labelVars, geomVars, splitVars>>

\* Line 98.
AppendImage ==
    /\ b_pc = "append"
    /\ x' = Append(x, cur)
    /\ b_pc' = "for"
    /\ UNCHANGED <<file_paths_list, resize_new_size, crop_size_arg, idx, cur>>
    /\ UNCHANGED <<labelVars, geomVars, splitVars>>

\* np.array(list): the images stacked along a new first axis, in list
\* order; images of differing shapes do not stack.
np_array(list) ==
    IF \A i, j \in DOMAIN list :
           list[i].h = list[j].h /\ list[i].w = list[j].w
    THEN [i \in 1..Len(list) |-> list[i]]
    ELSE <<Error>>

\* Lines 99-100.
ReturnArray ==
    /\ b_pc = "array"
    /\ x' = np_array(x)
    /\ b_pc' = IF x' = <<Error>> THEN "raised" ELSE "returned"
    /\ UNCHANGED <<file_paths_list, resize_new_size, crop_size_arg, idx, cur>>
    /\ UNCHANGED <<labelVars, geomVars, splitVars>>

\* Line 91 has run: x = [].  Any list of paths, any square resize target
\* and any square crop target no larger.
InitBatch ==
    /\ LabelIdle /\ GeomIdle /\ SplitIdle
    /\ b_pc = "for"
    /\ file_paths_list \in SeqsUpTo(Paths, MaxPaths)
    /\ resize_new_size \in {<<n, n>> : n \in 1..MaxBatchSize}
    /\ crop_size_arg \in {<<c, c>> : c \in 1..resize_new_size[1]}
    /\ idx = 0 /\ cur = None /\ x = <<>>

NextBatch ==
    \/ ForNext \/ Imread \/ CvtColor \/ ResizeToSquare \/ Crop
    \/ AppendImage \/ ReturnArray
SpecBatch == InitBatch /\ [][NextBatch]_vars

Decodable(path) == path[1] = "image"

\* What one path's image becomes: decoded, converted, resized, cropped.
Normalized(path) ==
    LET r == resize_image_to_square(cvtColor(imread(path)), resize_new_size)
    IN  IF r = Error THEN Error ELSE crop_image(r, crop_size_arg)

AllDecodable == \A i \in DOMAIN file_paths_list : Decodable(file_paths_list[i])

\* The images appended so far are those of the first Len(x) paths, in order.
OutputsFollowInputs ==
    /\ Len(x) <= Len(file_paths_list)
    /\ \A i \in 1..Len(x) : x[i] = Normalized(file_paths_list[i])

\* C3 (as claimed): for every list of decodable paths process_images
\* returns exactly len(paths) images, the i-th the normalisation of the
\* i-th path, at every point of the loop; the empty list gives an empty
\* sequence and no error.
C3_OrderedOutputForDecodable ==
    AllDecodable =>
        /\ b_pc # "raised"
        /\ OutputsFollowInputs
        /\ b_pc = "returned" => Len(x) = Len(file_paths_list)

\* What the code does keep: whenever process_images returns, it returns
\* len(paths) images in the order of the paths.
OrderedWhenReturned ==
    /\ b_pc \notin {"array", "returned", "raised"} => OutputsFollowInputs
    /\ b_pc = "returned" =>
         /\ Len(x) = Len(file_paths_list)
         /\ OutputsFollowInputs

\* The first position of the list that holds an undecodable path.
FirstUndecodable ==
    CHOOSE i \in DOMAIN file_paths_list :
        /\ ~Decodable(file_paths_list[i])
        /\ \A j \in 1..(i - 1) : Decodable(file_paths_list[j])

\* C7: with an undecodable path anywhere in the list process_images never
\* returns an array: the loop never goes past that path, and once no step
\* is left the call has raised.
C7_UndecodableAbortsBatch ==
    ~AllDecodable =>
        /\ b_pc # "returned"
        /\ idx <= FirstUndecodable
        /\ Len(x) < FirstUndecodable
        /\ (~ENABLED NextBatch) => b_pc = "raised"

\* C7's case: the undecodable path comes last, after images were already
\* processed, and the call has raised at it.
C7_Witness ==
    /\ ~AllDecodable
    /\ b_pc = "raised"
    /\ FirstUndecodable = Len(file_paths_list)
    /\ Len(x) = 2
    /\ cur = None

(***************************************************************************)
(*              np.random.seed and train_validation_split                  *)
(***************************************************************************)

MaxN     == 3       \* images in the saved archive
MaxCalls == 2       \* calls of train_validation_split in one run
Seed     == 1337    \* the argument of np.random.seed

Runs        == {"run1", "run2"}     \* two executions of the program
PixelValues == {0, 255}             \* uint8 intensities, one per image
Vocabulary  == <<"daisy", "rose">>  \* the label strings, in sorted order

\* The low four bits of the first 32-bit outputs of numpy's MT19937 after
\* np.random.seed(1337); the interval draws below read no higher bit while
\* the interval's maximum is below 16.
mt19937_1337 ==
    <<7, 13, 12, 8, 7, 9, 7, 10, 2, 2, 4, 8, 9, 6, 6, 10,
      7, 8, 1, 11, 13, 6, 6, 2, 2, 9, 8, 11, 1, 12, 7, 3>>

\* np.random.seed(seed): the generator restarts at the first output of the
\* seed's stream.
np_random_seed(seed) == [seed |-> seed, pos |-> 0]

\* The generator's next output and state.  The stream of any other seed is
\* stood for by the same outputs read from another place.
next_uint32(st) ==
    [value |-> mt19937_1337[((st.pos + st.seed - Seed) % Len(mt19937_1337)) + 1],
     st    |-> [st EXCEPT !.pos = @ + 1]]

RECURSIVE MaskFrom(_, _)
MaskFrom(mask, max) == IF mask >= max THEN mask ELSE MaskFrom(2 * mask + 1, max)

RECURSIVE random_interval_from(_, _, _)
random_interval_from(max, mask, st) ==
    LET d     == next_uint32(st)
        value == d.value % (mask + 1)
    IN  IF value <= max THEN [value |-> value, st |-> d.st]
        ELSE random_interval_from(max, mask, d.st)

\* numpy's random_interval: a draw from 0..max by masking and rejection;
\* max = 0 draws nothing.
random_interval(max, st) ==
    IF max = 0 THEN [value |-> 0, st |-> st]
    ELSE random_interval_from(max, MaskFrom(0, max), st)

RECURSIVE shuffle_from(_, _, _)
\* RandomState.shuffle: for i = n-1 down to 1, swap arr[i] with arr[j],
\* j drawn from 0..i (positions here count from 1).
shuffle_from(arr, i, st) ==
    IF i < 2 THEN [perm |-> arr, st |-> st]
    ELSE LET d == random_interval(i - 1, st)
             j == d.value + 1
         IN  shuffle_from([arr EXCEPT ![i] = arr[j], ![j] = arr[i]],
                          i - 1, d.st)

\* RandomState.permutation(n): arange(n) shuffled.
permutation(n, st) == shuffle_from([i \in 1..n |-> i], n, st)

\* LabelEncoder.fit_transform: each label's index among the sorted distinct
\* labels of the whole array.
Rank(label) == CHOOSE i \in DOMAIN Vocabulary : Vocabulary[i] = label
fit_transform(y) ==
    [i \in DOMAIN y |->
        Cardinality({c \in Range(y) : Rank(c) < Rank(y[i])})]

\* Lines 122-125: astype('float32') / 255, kept as the quotient.
rescale(v) == [num |-> v, den |-> 255]

\* a[indices]: numpy's indexing of an array by an index array.
take(a, indices) == [k \in DOMAIN indices |-> a[indices[k]]]

Raised == [status |-> "raised", X_train |-> <<>>, X_test |-> <<>>,
           y_train |-> <<>>, y_test |-> <<>>]

\* ceil(0.25 * n), the default test size.
n_test_of(n) == (n + 3) \div 4

\* A faulty variant: x and y shuffled by permutations drawn one after the other.
split_unpaired(xs, ys, st) ==
    LET n      == Len(xs)
        n_test == n_test_of(n)
        px     == permutation(n, st)
        py     == permutation(n, px.st)
    IN  IF n = 0 \/ n - n_test = 0
        THEN [out |-> Raised, st |-> st]
        ELSE [out |-> [status  |-> "returned",
                       X_train |-> take(xs, SubSeq(px.perm, n_test + 1, n)),
                       X_test  |-> take(xs, SubSeq(px.perm, 1, n_test)),
                       y_train |-> take(ys, SubSeq(py.perm, n_test + 1, n)),
                       y_test  |-> take(ys, SubSeq(py.perm, 1, n_test))],
              st |-> py.st]

\* Line 117, train_test_split(x, y) with its defaults: a quarter (rounded
\* up) is held out; one permutation of the positions is drawn from the
\* global generator and indexes both arrays; an empty archive and an empty
\* train set are refused with ValueError before anything is drawn.
train_test_split(xs, ys, st) ==
    LET n         == Len(xs)
        n_test    == n_test_of(n)
        p         == permutation(n, st)
        ind_test  == SubSeq(p.perm, 1, n_test)
        ind_train == SubSeq(p.perm, n_test + 1, n)
    IN  IF n = 0 \/ n - n_test = 0
        THEN [out |-> Raised, st |-> st]
        ELSE [out |-> [status  |-> "returned",
                       X_train |-> take(xs, ind_train),
                       X_test  |-> take(xs, ind_test),
                       y_train |-> take(ys, ind_train),
                       y_test  |-> take(ys, ind_test)],
              st |-> p.st]

\* A faulty variant: line 27 missing, the generator left as the import seeded it
\* from the system's entropy.
ModuleLoadUnseeded(r) ==
    /\ s_pc[r] = "import"
    /\ \E entropy \in 1..8 :
         rng' = [rng EXCEPT ![r] = np_random_seed(Seed + entropy)]
    /\ s_pc' = [s_pc EXCEPT ![r] = "loaded"]
    /\ UNCHANGED <<archive, results>>
    /\ UNCHANGED <<labelVars, geomVars, batchVars>>

\* Line 27, run once when the module is loaded.
ModuleLoad(r) ==
    /\ s_pc[r] = "import"
    /\ rng' = [rng EXCEPT ![r] = np_random_seed(Seed)]
    /\ s_pc' = [s_pc EXCEPT ![r] = "loaded"]
    /\ UNCHANGED <<archive, results>>
    /\ UNCHANGED <<labelVars, geomVars, batchVars>>

\* One call of train_validation_split, lines 108-126, on the archive.
TrainValidationSplit(r) ==
    /\ s_pc[r] = "loaded"
    /\ Len(results[r]) < MaxCalls
    /\ LET xs  == archive[1]
           y   == fit_transform(archive[2])
           sp  == train_test_split(xs, y, rng[r])
           out == IF sp.out.status = "raised" THEN sp.out
                  ELSE [sp.out EXCEPT
                          !.X_train = [k \in DOMAIN @ |-> rescale(@[k])],
                          !.X_test  = [k \in DOMAIN @ |-> rescale(@[k])]]
       IN  /\ rng' = [rng EXCEPT ![r] = sp.st]
           /\ results' = [results EXCEPT ![r] = Append(@, out)]
    /\ UNCHANGED <<archive, s_pc>>
    /\ UNCHANGED <<labelVars, geomVars, batchVars>>

\* The archive np.savez wrote: N images and their N labels, in step; every
\* run reads the same file.  The generator's state before line 27 is never
\* read.
InitSplit ==
    /\ LabelIdle /\ GeomIdle /\ BatchIdle
    /\ \E n \in 0..MaxN :
         archive \in {<<xs, ys>> : xs \in [1..n -> PixelValues],
                                   ys \in [1..n -> Range(Vocabulary)]}
    /\ rng = [r \in Runs |-> np_random_seed(0)]
    /\ s_pc = [r \in Runs |-> "import"]
    /\ results = [r \in Runs |-> <<>>]

NextSplit == \E r \in Runs : ModuleLoad(r) \/ TrainValidationSplit(r)
SpecSplit == InitSplit /\ [][NextSplit]_vars

N == Len(archive[1])

\* The bijections of 1..n.
Bijections(n) ==
    {f \in [1..n -> 1..n] : \A i, j \in 1..n : f[i] = f[j] => i = j}

\* out's four arrays are read off the archive through one arrangement of
\* its positions: the first m go to the test arrays, the others to the
\* train arrays, images rescaled and labels encoded.
PairedSplit(out) ==
    \E f \in Bijections(N), m \in 0..N :
        LET enc == fit_transform(archive[2])
        IN  /\ Len(out.X_test) = m /\ Len(out.y_test) = m
            /\ Len(out.X_train) = N - m /\ Len(out.y_train) = N - m
            /\ \A k \in 1..m :
                 /\ out.X_test[k] = rescale(archive[1][f[k]])
                 /\ out.y_test[k] = enc[f[k]]
            /\ \A k \in 1..(N - m) :
                 /\ out.X_train[k] = rescale(archive[1][f[m + k]])
                 /\ out.y_train[k] = enc[f[m + k]]

\* C2: the train and test outputs come from two disjoint sets of archive
\* positions that cover all of them, each output position holding the
\* rescaled image and the encoded label of one and the same archive
\* position; so the lengths add up to N and agree pairwise.
C2_SplitKeepsPairs ==
    \A r \in Runs : \A c \in DOMAIN results[r] :
        LET out == results[r][c]
        IN  out.status = "returned" =>
              /\ PairedSplit(out)
              /\ Len(out.X_train) + Len(out.X_test) = N
              /\ Len(out.X_train) = Len(out.y_train)
              /\ Len(out.X_test) = Len(out.y_test)

\* C2's case: a split of three images that differ in pixels and in labels.
C2_Witness ==
    \E r \in Runs :
        /\ results[r] # <<>>
        /\ results[r][1].status = "returned"
        /\ N = 3
        /\ Cardinality(Range(archive[1])) = 2
        /\ Cardinality(Range(archive[2])) = 2
        /\ Len(results[r][1].X_train) = 2
        /\ Len(results[r][1].X_test) = 1

=============================================================================
